---- MODULE Spec2Model ----
(***************************************************************************)
(* Model of the ai-coder VS Code extension: the chat history kept by the   *)
(* ContextManager, the context batching of the AI providers, the           *)
(* rate-limit retry of processRequestWithContext, the webview message      *)
(* handler, the selected-context persistence and the API key storage.      *)
(***************************************************************************)
EXTENDS Integers, Sequences, FiniteSets, TLC

VARIABLES
    chatHistory,        \* ContextManager.chatHistory
    historyCalls,       \* number of addToHistory calls made so far
    historyLog,         \* every entry ever passed to addToHistory, in call order
    contextItems,       \* the caller's array handed to processBatchedRequest
    maxTokensPerBatch,  \* MAX_TOKENS_PER_REQUEST - baseTokens
    sortedItems,        \* result of sortContextItemsByRelevance
    batches,            \* result of createContextBatches
    batchPc,            \* position inside processBatchedRequest
    provider,           \* which AI provider handles the request
    reqOriginal,        \* context items of the original processRequestWithContext call
    reqItems,           \* context items of the current attempt
    reqPc,              \* position inside processRequestWithContext
    reqError,           \* the error caught last
    reqSizes,           \* number of context items of every API request issued
    reqFull,            \* fullResponse of the current attempt
    reqDelivered,       \* every text handed to onPartialResponse
    hPc,                \* per sendMessage event: position of its _handleUserMessage call
    hBatchesLeft,       \* per handler: batches still to be requested, the current one included
    hItems,             \* per handler: context items of the request in progress (0: no context)
    hChunks,            \* per handler: text chunks received on the open stream
    hPosted,            \* per handler: the messages it posted to the webview
    inFlight,           \* handlers that have an API request open
    fsExists,           \* paths that exist on disk
    selectedContextItems, \* ContextManager.selectedContextItems
    storedContext,      \* globalState value under 'ai-coder.selectedContext'
    pendingWrites,      \* globalState.update calls on that key not yet settled
    addOps,             \* addToSelectedContext calls suspended at an await
    opsIssued,          \* number of add/remove/clear calls made so far
    storageWrites,      \* number of globalState.update calls on that key so far
    ctxLog,             \* the add/remove/clear calls made so far, with the list before and after
    globalApiKey,       \* per provider: globalState value under '<provider>.apiKey'
    apiKey,             \* per provider: the provider object's apiKey field
    apiKeyConfigured,   \* per provider: the VS Code context key set by setContext
    keyEntered,         \* per provider: a key was entered through configureApiKey
    constructedAfter,   \* per provider: the provider was constructed after that entry
    keyPrompts,         \* number of input boxes shown so far
    keyPromptSource,    \* per provider: what showed the input box last
    procPc,             \* processBatchedRequest: start, request, returned, thrown
    procIndex,          \* the loop variable i, counted from 1
    procResponse,       \* fullResponse of processBatchedRequest
    procLog,            \* calls of processRequestWithContext, API requests, consumed streams
    clock,              \* what new Date().getTime() returns, in milliseconds
    inMemoryImages,     \* the Map from image id to data URL
    imageUploads,       \* number of uploads stored so far
    imageRemovals,      \* number of removeImageFromContext calls so far
    imageEvents         \* number of 'uploadImage' and 'removeImage' messages handled so far

histVars == <<chatHistory, historyCalls, historyLog>>

batchVars == <<contextItems, maxTokensPerBatch, sortedItems, batches, batchPc>>

retryVars == <<provider, reqOriginal, reqItems, reqPc, reqError, reqSizes, reqFull, reqDelivered>>

chatVars == <<hPc, hBatchesLeft, hItems, hChunks, hPosted, inFlight>>

ctxVars == <<fsExists, selectedContextItems, storedContext, pendingWrites, addOps, opsIssued, storageWrites, ctxLog>>

keyVars == <<globalApiKey, apiKey, apiKeyConfigured, keyEntered, constructedAfter, keyPrompts, keyPromptSource>>

procVars == <<procPc, procIndex, procResponse, procLog>>

imgVars == <<clock, inMemoryImages, imageUploads, imageRemovals, imageEvents>>

vars == <<histVars, batchVars, retryVars, chatVars, ctxVars, keyVars, procVars, imgVars>>

----------------------------------------------------------------------------
(* Program constants *)

HISTORY_LIMIT == 20

MAX_FILES_PER_BATCH == 10

(* Bounds of the model *)

MaxCalls == 21

MaxLen == 3

MaxLong == 12

MaxTok == 2

MaxBudget == 4

MaxChunks == 1

MaxMessages == 2

MaxBatches == 2

MaxBatchItems == 2

MaxOps == 3

MaxStored == 2

MaxPrompts == 3

MaxClock == 2

MaxEvents == 3

----------------------------------------------------------------------------
(* Generic helpers on sequences *)

Range(s) == {s[i] : i \in DOMAIN s}

RECURSIVE SumTokens(_)
SumTokens(s) == IF s = <<>> THEN 0 ELSE Head(s).tokens + SumTokens(Tail(s))

RECURSIVE Flatten(_)
Flatten(ss) == IF ss = <<>> THEN <<>> ELSE Head(ss) \o Flatten(Tail(ss))

IsPermutation(s, t) ==
    /\ Len(s) = Len(t)
    /\ \A x \in Range(s) \cup Range(t) :
          Cardinality({i \in DOMAIN s : s[i] = x}) = Cardinality({i \in DOMAIN t : t[i] = x})

----------------------------------------------------------------------------
(* ContextManager: chat history *)

Roles == {"user", "assistant"}

Contents == {"c"}

addToHistory_pop(history, role, content) ==
    LET pushed == Append(history, [role |-> role, content |-> content])
    IN  IF Len(pushed) > HISTORY_LIMIT THEN SubSeq(pushed, 1, Len(pushed) - 1) ELSE pushed

addToHistory_noShift(history, role, content) == Append(history, [role |-> role, content |-> content])

addToHistory(history, role, content) ==
    LET pushed == Append(history, [role |-> role, content |-> content])
    IN  IF Len(pushed) > HISTORY_LIMIT THEN Tail(pushed) ELSE pushed

\* getHistory returns a copy of the array
getHistory(history) == [i \in 1..Len(history) |-> history[i]]

AddToHistory ==
    /\ historyCalls < MaxCalls
    /\ historyCalls' = historyCalls + 1
    /\ \E role \in Roles, content \in Contents :
          /\ chatHistory' = addToHistory(chatHistory, role, content)
          /\ historyLog' = Append(historyLog, [role |-> role, content |-> content])
    /\ UNCHANGED <<batchVars, retryVars, chatVars, ctxVars, keyVars, procVars, imgVars>>

----------------------------------------------------------------------------
(* AI providers: context items, relevance sort and batching *)

\* A context item as the sort and the batching see it: a plain string, or a
\* ContextItem with its type, whether metadata.fileName is set, and the
\* number of tokens its content encodes to.  id is the position in the
\* caller's array and keeps equal-looking items apart.
ItemKinds ==
    { [type |-> "string", fileName |-> FALSE],
      [type |-> "current-file", fileName |-> TRUE],
      [type |-> "file", fileName |-> TRUE],
      [type |-> "text", fileName |-> FALSE] }

MkItem(i, k, t) == [id |-> i, type |-> k.type, fileName |-> k.fileName, tokens |-> t]

\* Every array of n items (n = 0 is the empty array).
ShortInputs(n) ==
    { [i \in 1..n |-> MkItem(i, ks[i], ts[i])] :
        ks \in [1..n -> ItemKinds], ts \in [1..n -> 0..MaxTok] }

\* Longer selections: n files of the same size, optionally with the active
\* editor's file at position p.
LongInputs ==
    { [i \in 1..n |-> IF i = p THEN MkItem(i, [type |-> "current-file", fileName |-> TRUE], t)
                               ELSE MkItem(i, [type |-> "file", fileName |-> TRUE], t)] :
        n \in (MaxLen + 1)..MaxLong, p \in 0..MaxLong, t \in 0..MaxTok }

Budgets == (0 - 1)..MaxBudget

countContextItemTokens(item) == item.tokens

isCurrentFile(item) == item.type # "string" /\ item.type = "current-file"

\* The comparator handed to Array.prototype.sort
compare_swapped(a, b) ==
    IF isCurrentFile(a) THEN 1
    ELSE IF isCurrentFile(b) THEN 0 - 1
    ELSE IF a.type # "string" /\ a.fileName THEN 0 - 1
    ELSE IF b.type # "string" /\ b.fileName THEN 1
    ELSE 0

compare(a, b) ==
    IF isCurrentFile(a) THEN 0 - 1
    ELSE IF isCurrentFile(b) THEN 1
    ELSE IF a.type # "string" /\ a.fileName THEN 0 - 1
    ELSE IF b.type # "string" /\ b.fileName THEN 1
    ELSE 0

\* Array.prototype.sort as the extension host (V8) runs it on arrays of
\* fewer than 64 elements: detect the initial run, reverse it when it is
\* descending, then binary-insertion-sort the rest into it.  The comparator
\* above is not a consistent ordering, so the result depends on exactly
\* these comparisons.
RECURSIVE RunEnd(_, _, _)
RunEnd(a, idx, desc) ==
    IF idx > Len(a) THEN Len(a)
    ELSE LET order == compare(a[idx], a[idx - 1])
         IN  IF (desc /\ order >= 0) \/ (~desc /\ order < 0)
             THEN idx - 1
             ELSE RunEnd(a, idx + 1, desc)

CountAndMakeRun(a) ==
    LET desc == compare(a[2], a[1]) < 0
        run  == RunEnd(a, 3, desc)
    IN  [run |-> run,
         arr |-> IF desc
                 THEN [i \in 1..Len(a) |-> IF i <= run THEN a[run + 1 - i] ELSE a[i]]
                 ELSE a]

RECURSIVE BinarySearch(_, _, _, _)
BinarySearch(a, pivot, left, right) ==
    IF left >= right THEN left
    ELSE LET mid == left + ((right - left) \div 2)
         IN  IF compare(pivot, a[mid]) < 0
             THEN BinarySearch(a, pivot, left, mid)
             ELSE BinarySearch(a, pivot, mid + 1, right)

RECURSIVE BinaryInsertionSort(_, _)
BinaryInsertionSort(a, start) ==
    IF start > Len(a) THEN a
    ELSE LET pivot == a[start]
             left  == BinarySearch(a, pivot, 1, start)
             moved == [i \in 1..Len(a) |->
                          IF i < left THEN a[i]
                          ELSE IF i = left THEN pivot
                          ELSE IF i <= start THEN a[i - 1]
                          ELSE a[i]]
         IN  BinaryInsertionSort(moved, start + 1)

ArraySort(a) ==
    IF Len(a) < 2 THEN a
    ELSE LET r == CountAndMakeRun(a)
         IN  BinaryInsertionSort(r.arr, r.run + 1)

\* sortContextItemsByRelevance: copies the array and sorts the copy in
\* place.  original is the caller's array after the call, sorted the
\* returned array.
sortContextItemsByRelevance(items) ==
    [original |-> items, sorted |-> ArraySort(items)]

\* One iteration of the loop of createContextBatches over items[1..]
BatchStep_capOffByOne(st, item, maxTokens) ==
    LET itemTokens == countContextItemTokens(item)
    IN  IF \/ st.currentBatchTokens + itemTokens > maxTokens
           \/ Len(st.currentBatch) > MAX_FILES_PER_BATCH
        THEN [batches |-> Append(st.batches, st.currentBatch),
              currentBatch |-> <<item>>,
              currentBatchTokens |-> itemTokens]
        ELSE [batches |-> st.batches,
              currentBatch |-> Append(st.currentBatch, item),
              currentBatchTokens |-> st.currentBatchTokens + itemTokens]

BatchStep_dropItem(st, item, maxTokens) ==
    LET itemTokens == countContextItemTokens(item)
    IN  IF \/ st.currentBatchTokens + itemTokens > maxTokens
           \/ Len(st.currentBatch) >= MAX_FILES_PER_BATCH
        THEN [batches |-> Append(st.batches, st.currentBatch),
              currentBatch |-> <<>>,
              currentBatchTokens |-> 0]
        ELSE [batches |-> st.batches,
              currentBatch |-> Append(st.currentBatch, item),
              currentBatchTokens |-> st.currentBatchTokens + itemTokens]

BatchStep_eager(st, item, maxTokens) ==
    LET itemTokens == countContextItemTokens(item)
    IN  IF \/ st.currentBatchTokens + itemTokens >= maxTokens
           \/ Len(st.currentBatch) >= MAX_FILES_PER_BATCH
        THEN [batches |-> Append(st.batches, st.currentBatch),
              currentBatch |-> <<item>>,
              currentBatchTokens |-> itemTokens]
        ELSE [batches |-> st.batches,
              currentBatch |-> Append(st.currentBatch, item),
              currentBatchTokens |-> st.currentBatchTokens + itemTokens]

BatchStep(st, item, maxTokens) ==
    LET itemTokens == countContextItemTokens(item)
    IN  IF \/ st.currentBatchTokens + itemTokens > maxTokens
           \/ Len(st.currentBatch) >= MAX_FILES_PER_BATCH
        THEN [batches |-> Append(st.batches, st.currentBatch),
              currentBatch |-> <<item>>,
              currentBatchTokens |-> itemTokens]
        ELSE [batches |-> st.batches,
              currentBatch |-> Append(st.currentBatch, item),
              currentBatchTokens |-> st.currentBatchTokens + itemTokens]

RECURSIVE BatchLoop(_, _, _, _)
BatchLoop(items, maxTokens, i, st) ==
    IF i > Len(items) THEN st
    ELSE BatchLoop(items, maxTokens, i + 1, BatchStep(st, items[i], maxTokens))

createContextBatches(items, maxTokens) ==
    LET st0 == IF Len(items) > 0
               THEN [batches |-> <<>>,
                     currentBatch |-> <<items[1]>>,
                     currentBatchTokens |-> countContextItemTokens(items[1])]
               ELSE [batches |-> <<>>, currentBatch |-> <<>>, currentBatchTokens |-> 0]
        st  == BatchLoop(items, maxTokens, 2, st0)
    IN  IF Len(st.currentBatch) > 0 THEN Append(st.batches, st.currentBatch) ELSE st.batches

\* processBatchedRequest, up to the point where the batches exist
SortItems ==
    /\ batchPc = "start"
    /\ LET r == sortContextItemsByRelevance(contextItems)
       IN  /\ contextItems' = r.original
           /\ sortedItems' = r.sorted
    /\ batchPc' = "sorted"
    /\ UNCHANGED <<maxTokensPerBatch, batches>>
    /\ UNCHANGED <<histVars, retryVars, chatVars, ctxVars, keyVars, procVars, imgVars>>

CreateBatches ==
    /\ batchPc = "sorted"
    /\ batches' = createContextBatches(sortedItems, maxTokensPerBatch)
    /\ batchPc' = "batched"
    /\ UNCHANGED <<contextItems, maxTokensPerBatch, sortedItems>>
    /\ UNCHANGED <<histVars, retryVars, chatVars, ctxVars, keyVars, procVars, imgVars>>

----------------------------------------------------------------------------
(* AI providers: processRequestWithContext and its rate-limit retry *)

Providers == {"anthropic", "gemini"}

\* What the catch block looks at: whether the thrown value is an Error, the
\* lower-cased message (by the phrase it contains) and the HTTP status.
ErrorMessages == {"overloaded", "rate limit", "quota", "resource exhausted", "other"}

ErrorValues == [isError : BOOLEAN, message : ErrorMessages, status : {429, 500}]

NoError == [isError |-> FALSE, message |-> "none", status |-> 0]

isRateLimitError(p, error) ==
    /\ error.isError
    /\ IF p = "anthropic"
       THEN \/ error.message = "overloaded"
            \/ error.message = "rate limit"
            \/ error.status = 429
       ELSE \/ error.message = "quota"
            \/ error.message = "rate limit"
            \/ error.message = "resource exhausted"

\* contextItems.slice(0, Math.ceil(contextItems.length / 2))
reducedContext_floor(items) == SubSeq(items, 1, Len(items) \div 2)

reducedContext_lastHalf(items) ==
    SubSeq(items, Len(items) - ((Len(items) + 1) \div 2) + 1, Len(items))

reducedContext(items) == SubSeq(items, 1, (Len(items) + 1) \div 2)

\* A text handed to onPartialResponse, or a chunk of the model's answer: what
\* it is, and the batch, the attempt and the position in the stream it
\* belongs to (texts of different attempts are different texts).
Text(kind, seq) == [kind |-> kind, batch |-> procIndex, attempt |-> Len(reqSizes), seq |-> seq]

LogEntry(event, batch, items, response) ==
    [event |-> event, batch |-> batch, items |-> items, response |-> response]

\* messages.create / generateContentStream is called: a request is in flight
IssueRequest ==
    /\ reqPc = "call"
    /\ reqPc' = "stream"
    /\ reqSizes' = Append(reqSizes, Len(reqItems))
    /\ reqFull' = <<>>
    /\ procLog' = Append(procLog, LogEntry("request", procIndex, reqItems, <<>>))
    /\ UNCHANGED <<provider, reqOriginal, reqItems, reqError, reqDelivered>>
    /\ UNCHANGED <<procPc, procIndex, procResponse>>
    /\ UNCHANGED <<histVars, batchVars, chatVars, ctxVars, keyVars, imgVars>>

\* one text chunk of the stream: appended to fullResponse and handed on
StreamChunk ==
    /\ reqPc = "stream"
    /\ Len(reqFull) < MaxChunks
    /\ reqFull' = Append(reqFull, Text("chunk", Len(reqFull) + 1))
    /\ reqDelivered' = Append(reqDelivered, Text("chunk", Len(reqFull) + 1))
    /\ UNCHANGED <<provider, reqOriginal, reqItems, reqPc, reqError, reqSizes>>
    /\ UNCHANGED <<histVars, batchVars, chatVars, ctxVars, keyVars, procVars, imgVars>>

\* the stream ends: fullResponse is returned
StreamEnd ==
    /\ reqPc = "stream"
    /\ reqPc' = "returned"
    /\ procLog' = Append(procLog, LogEntry("consumed", procIndex, reqItems, reqFull))
    /\ UNCHANGED <<provider, reqOriginal, reqItems, reqError, reqSizes, reqFull, reqDelivered>>
    /\ UNCHANGED <<procPc, procIndex, procResponse>>
    /\ UNCHANGED <<histVars, batchVars, chatVars, ctxVars, keyVars, imgVars>>

StreamFail_retryAnyError ==
    /\ reqPc = "stream"
    /\ \E error \in ErrorValues :
          /\ reqError' = error
          /\ reqDelivered' = Append(reqDelivered, Text("overloaded notice", 0))
          /\ reqPc' = "wait"
    /\ UNCHANGED <<provider, reqOriginal, reqItems, reqSizes, reqFull>>
    /\ UNCHANGED <<histVars, batchVars, chatVars, ctxVars, keyVars, procVars, imgVars>>

\* the request or its stream throws: the catch block either notifies the
\* user and starts the 3 second wait, or rethrows
StreamFail ==
    /\ reqPc = "stream"
    /\ \E error \in ErrorValues :
          /\ reqError' = error
          /\ IF isRateLimitError(provider, error)
             THEN /\ reqDelivered' = Append(reqDelivered, Text("overloaded notice", 0))
                  /\ reqPc' = "wait"
             ELSE /\ reqDelivered' = reqDelivered
                  /\ reqPc' = "thrown"
    /\ UNCHANGED <<provider, reqOriginal, reqItems, reqSizes, reqFull>>
    /\ UNCHANGED <<histVars, batchVars, chatVars, ctxVars, keyVars, procVars, imgVars>>

AfterWait_retryAlways ==
    /\ reqPc = "wait"
    /\ reqItems' = reducedContext(reqItems)
    /\ reqDelivered' = Append(reqDelivered, Text("retry notice", 0))
    /\ reqPc' = "call"
    /\ UNCHANGED <<provider, reqOriginal, reqError, reqSizes, reqFull>>
    /\ UNCHANGED <<histVars, batchVars, chatVars, ctxVars, keyVars, procVars, imgVars>>

\* the wait is over: recurse with the reduced context, or rethrow
AfterWait ==
    /\ reqPc = "wait"
    /\ IF Len(reqItems) > 1
       THEN /\ reqItems' = reducedContext(reqItems)
            /\ reqDelivered' = Append(reqDelivered, Text("retry notice", 0))
            /\ reqPc' = "call"
       ELSE /\ reqPc' = "thrown"
            /\ UNCHANGED <<reqItems, reqDelivered>>
    /\ UNCHANGED <<provider, reqOriginal, reqError, reqSizes, reqFull>>
    /\ UNCHANGED <<histVars, batchVars, chatVars, ctxVars, keyVars, procVars, imgVars>>

----------------------------------------------------------------------------
(* AI providers: processBatchedRequest and the end of generateResponse *)

\* What generateResponse hands to processBatchedRequest: the files picked by
\* the file-selection request, each rebuilt as a ContextItem of type "file"
\* with metadata.fileName set.
ProcInputs ==
    UNION { { [i \in 1..n |-> MkItem(i, [type |-> "file", fileName |-> TRUE], ts[i])] :
                ts \in [1..n -> 1..MaxTok] } : n \in 1..MaxLen }

\* processRequestWithContext(prompt, batches[i], handler) is called
CallBatch(i, batchList, log) ==
    /\ procIndex' = i
    /\ reqOriginal' = batchList[i]
    /\ reqItems' = batchList[i]
    /\ reqPc' = "call"
    /\ reqError' = NoError
    /\ reqSizes' = <<>>
    /\ reqFull' = <<>>
    /\ procLog' = Append(log, LogEntry("call", i, batchList[i], <<>>))

\* processBatchedRequest is entered with a non-empty context list: the
\* prompt goes to the history, the items are sorted and batched, the user is
\* told about several batches, and the loop calls
\* processRequestWithContext for the first batch.
StartBatched ==
    /\ procPc = "start"
    /\ chatHistory' = addToHistory(chatHistory, "user", <<"prompt">>)
    /\ historyCalls' = historyCalls + 1
    /\ historyLog' = Append(historyLog, [role |-> "user", content |-> <<"prompt">>])
    /\ LET r == sortContextItemsByRelevance(contextItems)
           b == createContextBatches(r.sorted, maxTokensPerBatch)
       IN  /\ contextItems' = r.original
           /\ sortedItems' = r.sorted
           /\ batches' = b
           /\ reqDelivered' = IF Len(b) > 1
                              THEN Append(reqDelivered, Text("batches notice", 0))
                              ELSE reqDelivered
           /\ CallBatch(1, b, procLog)
    /\ batchPc' = "batched"
    /\ procResponse' = <<>>
    /\ procPc' = "request"
    /\ UNCHANGED <<maxTokensPerBatch, provider>>
    /\ UNCHANGED <<chatVars, ctxVars, keyVars, imgVars>>

BatchReturned_prepend ==
    /\ procPc = "request"
    /\ reqPc = "returned"
    /\ procResponse' = reqFull \o procResponse
    /\ IF procIndex < Len(batches)
       THEN /\ CallBatch(procIndex + 1, batches, procLog)
            /\ UNCHANGED <<procPc, histVars>>
       ELSE /\ chatHistory' = addToHistory(chatHistory, "assistant", procResponse')
            /\ historyCalls' = historyCalls + 1
            /\ historyLog' = Append(historyLog, [role |-> "assistant", content |-> procResponse'])
            /\ procPc' = "returned"
            /\ UNCHANGED <<procIndex, procLog, reqOriginal, reqItems, reqPc, reqError, reqSizes, reqFull>>
    /\ UNCHANGED <<provider, reqDelivered>>
    /\ UNCHANGED <<batchVars, chatVars, ctxVars, keyVars, imgVars>>

\* processRequestWithContext returns the text of batch i: it is appended to
\* fullResponse and the loop goes on with batch i + 1; after the last batch
\* processBatchedRequest returns fullResponse and generateResponse stores
\* it in the history and returns it.
BatchReturned ==
    /\ procPc = "request"
    /\ reqPc = "returned"
    /\ procResponse' = procResponse \o reqFull
    /\ IF procIndex < Len(batches)
       THEN /\ CallBatch(procIndex + 1, batches, procLog)
            /\ UNCHANGED <<procPc, histVars>>
       ELSE /\ chatHistory' = addToHistory(chatHistory, "assistant", procResponse')
            /\ historyCalls' = historyCalls + 1
            /\ historyLog' = Append(historyLog, [role |-> "assistant", content |-> procResponse'])
            /\ procPc' = "returned"
            /\ UNCHANGED <<procIndex, procLog, reqOriginal, reqItems, reqPc, reqError, reqSizes, reqFull>>
    /\ UNCHANGED <<provider, reqDelivered>>
    /\ UNCHANGED <<batchVars, chatVars, ctxVars, keyVars, imgVars>>

\* processRequestWithContext throws: the loop is left, processBatchedRequest
\* and generateResponse pass the error on to the caller.
BatchThrown ==
    /\ procPc = "request"
    /\ reqPc = "thrown"
    /\ procPc' = "thrown"
    /\ UNCHANGED <<procIndex, procResponse, procLog>>
    /\ UNCHANGED retryVars
    /\ UNCHANGED <<histVars, batchVars, chatVars, ctxVars, keyVars, imgVars>>

----------------------------------------------------------------------------
(* Chat view: the webview message handler and _handleUserMessage *)

Handlers == 1..MaxMessages

Post(h, msgs) == [hPosted EXCEPT ![h] = @ \o msgs]

\* A 'sendMessage' event is delivered.  The listener calls
\* _handleUserMessage without awaiting it; the call runs up to its first
\* real suspension, the file-selection request of analyzeContextWithAI.
ReceiveMessage(h) ==
    /\ hPc[h] = "none"
    /\ h > 1 => hPc[h - 1] # "none"
    /\ chatHistory' = addToHistory(chatHistory, "user", <<"prompt", h>>)
    /\ historyCalls' = historyCalls + 1
    /\ historyLog' = Append(historyLog, [role |-> "user", content |-> <<"prompt", h>>])
    /\ hPosted' = Post(h, <<"addMessage user", "showTyping", "startAIMessage", "appendToAIMessage">>)
    /\ inFlight' = inFlight \cup {h}
    /\ hPc' = [hPc EXCEPT ![h] = "analyze"]
    /\ UNCHANGED <<hBatchesLeft, hItems, hChunks>>
    /\ UNCHANGED <<batchVars, retryVars, ctxVars, keyVars, procVars, imgVars>>

\* The file-selection request returns; processBatchedRequest starts and
\* issues its first request: processSimpleRequest when no context item was
\* selected (nb = 0), else the request of the first of nb batches.
AnalyzeDone(h) ==
    /\ hPc[h] = "analyze"
    /\ h \in inFlight
    /\ \E nb \in 0..MaxBatches, n \in 1..MaxBatchItems :
          IF nb = 0
          THEN /\ UNCHANGED histVars
               /\ hPosted' = Post(h, <<"appendToAIMessage", "appendToAIMessage">>)
               /\ hBatchesLeft' = [hBatchesLeft EXCEPT ![h] = 1]
               /\ hItems' = [hItems EXCEPT ![h] = 0]
          ELSE /\ chatHistory' = addToHistory(chatHistory, "user", <<"prompt", h>>)
               /\ historyCalls' = historyCalls + 1
               /\ historyLog' = Append(historyLog, [role |-> "user", content |-> <<"prompt", h>>])
               /\ hPosted' = Post(h, IF nb > 1
                                     THEN <<"appendToAIMessage", "appendToAIMessage", "appendToAIMessage">>
                                     ELSE <<"appendToAIMessage", "appendToAIMessage">>)
               /\ hBatchesLeft' = [hBatchesLeft EXCEPT ![h] = nb]
               /\ hItems' = [hItems EXCEPT ![h] = n]
    /\ hChunks' = [hChunks EXCEPT ![h] = 0]
    /\ inFlight' = (inFlight \ {h}) \cup {h}
    /\ hPc' = [hPc EXCEPT ![h] = "stream"]
    /\ UNCHANGED <<batchVars, retryVars, ctxVars, keyVars, procVars, imgVars>>

AnalyzeFail_noHide(h) ==
    /\ hPc[h] = "analyze"
    /\ h \in inFlight
    /\ inFlight' = inFlight \ {h}
    /\ hPosted' = Post(h, <<"addMessage ai">>)
    /\ hPc' = [hPc EXCEPT ![h] = "failed"]
    /\ UNCHANGED <<hBatchesLeft, hItems, hChunks>>
    /\ UNCHANGED <<histVars, batchVars, retryVars, ctxVars, keyVars, procVars, imgVars>>

\* The file-selection request throws: generateResponse rethrows and the
\* catch block of _handleUserMessage reports the error.
AnalyzeFail(h) ==
    /\ hPc[h] = "analyze"
    /\ h \in inFlight
    /\ inFlight' = inFlight \ {h}
    /\ hPosted' = Post(h, <<"hideTyping", "addMessage ai">>)
    /\ hPc' = [hPc EXCEPT ![h] = "failed"]
    /\ UNCHANGED <<hBatchesLeft, hItems, hChunks>>
    /\ UNCHANGED <<histVars, batchVars, retryVars, ctxVars, keyVars, procVars, imgVars>>

\* A text chunk arrives on the handler's open stream.
HandlerChunk(h) ==
    /\ hPc[h] = "stream"
    /\ h \in inFlight
    /\ hChunks[h] < MaxChunks
    /\ hChunks' = [hChunks EXCEPT ![h] = @ + 1]
    /\ hPosted' = Post(h, <<"appendToAIMessage">>)
    /\ UNCHANGED <<hPc, hBatchesLeft, hItems, inFlight>>
    /\ UNCHANGED <<histVars, batchVars, retryVars, ctxVars, keyVars, procVars, imgVars>>

\* The stream ends.  With batches left the loop of processBatchedRequest
\* issues the next request; after the last one generateResponse stores the
\* answer and _handleUserMessage completes the message.
HandlerStreamEnd(h) ==
    /\ hPc[h] = "stream"
    /\ h \in inFlight
    /\ IF hBatchesLeft[h] > 1
       THEN /\ \E n \in 1..MaxBatchItems : hItems' = [hItems EXCEPT ![h] = n]
            /\ hBatchesLeft' = [hBatchesLeft EXCEPT ![h] = @ - 1]
            /\ hChunks' = [hChunks EXCEPT ![h] = 0]
            /\ inFlight' = (inFlight \ {h}) \cup {h}
            /\ UNCHANGED <<hPc, hPosted>>
            /\ UNCHANGED histVars
       ELSE /\ chatHistory' = addToHistory(chatHistory, "assistant", <<"response", h>>)
            /\ historyCalls' = historyCalls + 1
            /\ historyLog' = Append(historyLog, [role |-> "assistant", content |-> <<"response", h>>])
            /\ hPosted' = Post(h, <<"completeAIMessage", "hideTyping">>)
            /\ hBatchesLeft' = [hBatchesLeft EXCEPT ![h] = 0]
            /\ inFlight' = inFlight \ {h}
            /\ hPc' = [hPc EXCEPT ![h] = "done"]
            /\ UNCHANGED <<hItems, hChunks>>
    /\ UNCHANGED <<batchVars, retryVars, ctxVars, keyVars, procVars, imgVars>>

\* The request or its stream throws.  processRequestWithContext starts the
\* wait on a rate-limit error; processSimpleRequest has no catch block, and
\* any other error goes up to the catch block of _handleUserMessage.
HandlerStreamFail(h) ==
    /\ hPc[h] = "stream"
    /\ h \in inFlight
    /\ inFlight' = inFlight \ {h}
    /\ \E rateLimit \in BOOLEAN :
          IF rateLimit /\ hItems[h] > 0
          THEN /\ hPosted' = Post(h, <<"appendToAIMessage">>)
               /\ hPc' = [hPc EXCEPT ![h] = "wait"]
          ELSE /\ hPosted' = Post(h, <<"hideTyping", "addMessage ai">>)
               /\ hPc' = [hPc EXCEPT ![h] = "failed"]
    /\ UNCHANGED <<hBatchesLeft, hItems, hChunks>>
    /\ UNCHANGED <<histVars, batchVars, retryVars, ctxVars, keyVars, procVars, imgVars>>

\* The 3 second wait is over: retry with the reduced context, or rethrow.
HandlerAfterWait(h) ==
    /\ hPc[h] = "wait"
    /\ IF hItems[h] > 1
       THEN /\ hItems' = [hItems EXCEPT ![h] = (@ + 1) \div 2]
            /\ hChunks' = [hChunks EXCEPT ![h] = 0]
            /\ hPosted' = Post(h, <<"appendToAIMessage">>)
            /\ inFlight' = inFlight \cup {h}
            /\ hPc' = [hPc EXCEPT ![h] = "stream"]
       ELSE /\ hPosted' = Post(h, <<"hideTyping", "addMessage ai">>)
            /\ hPc' = [hPc EXCEPT ![h] = "failed"]
            /\ UNCHANGED <<hItems, hChunks, inFlight>>
    /\ UNCHANGED hBatchesLeft
    /\ UNCHANGED <<histVars, batchVars, retryVars, ctxVars, keyVars, procVars, imgVars>>

----------------------------------------------------------------------------
(* ContextManager: the selected context list and its persistence *)

Paths == {"a.ts", "b.ts", "dir"}

\* what callers may pass: a normalized path or one that path.normalize changes
RawPaths == Paths \cup {"./a.ts"}

normalize(raw) == IF raw = "./a.ts" THEN "a.ts" ELSE raw

isDirectory(path) == path = "dir"

existsSync_always(raw) == TRUE

existsSync(raw) == normalize(raw) \in fsExists

includes(list, path) == \E i \in DOMAIN list : list[i] = path

RECURSIVE filter(_, _)
filter(list, keep) ==
    IF list = <<>> THEN <<>>
    ELSE IF Head(list) \in keep THEN <<Head(list)>> \o filter(Tail(list), keep)
    ELSE filter(Tail(list), keep)

\* lists a previous session can have saved: distinct normalized paths
SavedLists ==
    { l \in UNION { [1..n -> Paths] : n \in 0..MaxStored } :
        \A i, j \in DOMAIN l : i # j => l[i] # l[j] }

\* this.selectedContextItems.push(path) followed by
\* globalState.update('ai-coder.selectedContext', this.selectedContextItems):
\* the value is captured when update is called and written in call order.
PushAndPersist(op, path) ==
    /\ selectedContextItems' = Append(selectedContextItems, path)
    /\ pendingWrites' = Append(pendingWrites, [value |-> Append(selectedContextItems, path), op |-> op])
    /\ storageWrites' = storageWrites + 1

\* One call as its caller sees it: the argument, the list when the call is
\* made, the list when its synchronous part ends, and whether every earlier
\* addToSelectedContext had completed by then.
Logged(kind, raw) ==
    ctxLog' = Append(ctxLog, [kind |-> kind, raw |-> raw,
                              before |-> selectedContextItems,
                              after |-> selectedContextItems',
                              quiet |-> addOps = {}])

AddToSelectedContext(raw) ==
    /\ opsIssued < MaxOps
    /\ opsIssued' = opsIssued + 1
    /\ LET op == opsIssued + 1
           path == normalize(raw)
       IN  IF ~existsSync(raw) \/ includes(selectedContextItems, path)
           THEN UNCHANGED <<selectedContextItems, pendingWrites, addOps, storageWrites>>
           ELSE IF isDirectory(path)
           THEN \E analyzed \in BOOLEAN :
                   IF analyzed
                   THEN \* await globalState.update(metadataKey, metadata)
                        /\ addOps' = addOps \cup {[op |-> op, path |-> path, pc |-> "awaitMetadata"]}
                        /\ UNCHANGED <<selectedContextItems, pendingWrites, storageWrites>>
                   ELSE \* analyzeDirectory threw: the directory is added all the same
                        /\ PushAndPersist(op, path)
                        /\ addOps' = addOps \cup {[op |-> op, path |-> path, pc |-> "awaitPersist"]}
           ELSE /\ PushAndPersist(op, path)
                /\ addOps' = addOps \cup {[op |-> op, path |-> path, pc |-> "awaitPersist"]}
    /\ Logged("add", raw)
    /\ UNCHANGED <<fsExists, storedContext>>
    /\ UNCHANGED <<histVars, batchVars, retryVars, chatVars, keyVars, procVars, imgVars>>

\* the metadata update of a directory add has settled: the call resumes,
\* pushes the path and persists the list
ResumeAfterMetadata(a) ==
    /\ a \in addOps
    /\ a.pc = "awaitMetadata"
    /\ PushAndPersist(a.op, a.path)
    /\ addOps' = (addOps \ {a}) \cup {[a EXCEPT !.pc = "awaitPersist"]}
    /\ UNCHANGED <<fsExists, storedContext, opsIssued, ctxLog>>
    /\ UNCHANGED <<histVars, batchVars, retryVars, chatVars, keyVars, procVars, imgVars>>

RemoveFromSelectedContext(itemPath) ==
    /\ opsIssued < MaxOps
    /\ opsIssued' = opsIssued + 1
    /\ LET kept == filter(selectedContextItems, Paths \ {itemPath})
       IN  /\ selectedContextItems' = kept
           /\ pendingWrites' = Append(pendingWrites, [value |-> kept, op |-> 0])
    /\ storageWrites' = storageWrites + 1
    /\ Logged("remove", itemPath)
    /\ UNCHANGED <<fsExists, storedContext, addOps>>
    /\ UNCHANGED <<histVars, batchVars, retryVars, chatVars, keyVars, procVars, imgVars>>

ClearSelectedContext_noPersist ==
    /\ opsIssued < MaxOps
    /\ opsIssued' = opsIssued + 1
    /\ selectedContextItems' = <<>>
    /\ UNCHANGED <<pendingWrites, storageWrites>>
    /\ Logged("clear", "")
    /\ UNCHANGED <<fsExists, storedContext, addOps>>
    /\ UNCHANGED <<histVars, batchVars, retryVars, chatVars, keyVars, procVars, imgVars>>

ClearSelectedContext ==
    /\ opsIssued < MaxOps
    /\ opsIssued' = opsIssued + 1
    /\ selectedContextItems' = <<>>
    /\ pendingWrites' = Append(pendingWrites, [value |-> <<>>, op |-> 0])
    /\ storageWrites' = storageWrites + 1
    /\ Logged("clear", "")
    /\ UNCHANGED <<fsExists, storedContext, addOps>>
    /\ UNCHANGED <<histVars, batchVars, retryVars, chatVars, keyVars, procVars, imgVars>>

\* the oldest outstanding update reaches storage; an add that awaits it returns
SettleWrite ==
    /\ pendingWrites # <<>>
    /\ storedContext' = Head(pendingWrites).value
    /\ pendingWrites' = Tail(pendingWrites)
    /\ addOps' = {a \in addOps : ~(a.pc = "awaitPersist" /\ a.op = Head(pendingWrites).op)}
    /\ UNCHANGED <<fsExists, selectedContextItems, opsIssued, storageWrites, ctxLog>>
    /\ UNCHANGED <<histVars, batchVars, retryVars, chatVars, keyVars, procVars, imgVars>>

----------------------------------------------------------------------------
(* Chat view and ContextManager: uploaded images kept in memory *)

\* what the webview may send as imageData.dataUrl
DataUrls == {"data:image/png;base64,AAAA", "data:image/png;base64,BBBB", "no data url"}

\* dataUrl.match(/^data:image\/([a-zA-Z0-9]+);base64,(.+)$/)
matches(dataUrl) == dataUrl # "no data url"

\* `image_${new Date().getTime()}`: the prefix and the millisecond count
imageId(ms) == <<"image_", ms>>

\* Map.prototype.set: a new key is added, the value of a present key is replaced
MapSet(map, key, value) ==
    [k \in DOMAIN map \cup {key} |-> IF k = key THEN value ELSE map[k]]

\* Map.prototype.delete
MapDelete(map, key) == [k \in DOMAIN map \ {key} |-> map[k]]

\* a millisecond passes
ClockTick ==
    /\ clock < MaxClock
    /\ clock' = clock + 1
    /\ UNCHANGED <<inMemoryImages, imageUploads, imageRemovals, imageEvents>>
    /\ UNCHANGED <<histVars, batchVars, retryVars, chatVars, ctxVars, keyVars, procVars>>

\* An 'uploadImage' message: _handleImageUploadData checks the data URL,
\* builds the id from the clock, hands the image to addImageToHistory and to
\* addImageToContext.  Nothing in it suspends.
HandleImageUploadData(dataUrl) ==
    /\ imageEvents < MaxEvents
    /\ imageEvents' = imageEvents + 1
    /\ IF matches(dataUrl)
       THEN LET id == imageId(clock)
                content == <<"image_message", id, dataUrl>>
            IN  /\ chatHistory' = addToHistory(chatHistory, "user", content)
                /\ historyCalls' = historyCalls + 1
                /\ historyLog' = Append(historyLog, [role |-> "user", content |-> content])
                /\ inMemoryImages' = MapSet(inMemoryImages, id, dataUrl)
                /\ imageUploads' = imageUploads + 1
       ELSE UNCHANGED <<histVars, inMemoryImages, imageUploads>>
    /\ UNCHANGED <<clock, imageRemovals>>
    /\ UNCHANGED <<batchVars, retryVars, chatVars, ctxVars, keyVars, procVars>>

\* A 'removeImage' message: removeImageFromContext deletes the entry and
\* calls removeFromSelectedContext with the id.
RemoveImageFromContext(id) ==
    /\ imageEvents < MaxEvents
    /\ imageEvents' = imageEvents + 1
    /\ inMemoryImages' = MapDelete(inMemoryImages, id)
    /\ imageRemovals' = imageRemovals + 1
    /\ LET kept == filter(selectedContextItems, Paths)
       IN  /\ selectedContextItems' = kept
           /\ pendingWrites' = Append(pendingWrites, [value |-> kept, op |-> 0])
    /\ storageWrites' = storageWrites + 1
    /\ opsIssued' = opsIssued + 1
    /\ Logged("remove", id)
    /\ UNCHANGED <<fsExists, storedContext, addOps>>
    /\ UNCHANGED <<clock, imageUploads>>
    /\ UNCHANGED <<histVars, batchVars, retryVars, chatVars, keyVars, procVars>>

----------------------------------------------------------------------------
(* AI providers: the API key *)

ApiKeys == {"key1", "key2"}

NoKey == "undefined"

\* what showInputBox resolves to: a key, the empty string, or undefined on Escape
InputBoxResults == ApiKeys \cup {"", NoKey}

isConfigured(p) == apiKey[p] # NoKey /\ apiKey[p] # ""

\* configureApiKey: the input box is shown; on a non-empty input the key
\* goes into the provider's field and setContext is executed.  globalState
\* is not written.
configureApiKey(p, input, source) ==
    /\ keyPrompts' = keyPrompts + 1
    /\ keyPromptSource' = [keyPromptSource EXCEPT ![p] = source]
    /\ IF input # NoKey /\ input # ""
       THEN /\ apiKey' = [apiKey EXCEPT ![p] = input]
            /\ apiKeyConfigured' = [apiKeyConfigured EXCEPT ![p] = TRUE]
            /\ keyEntered' = [keyEntered EXCEPT ![p] = TRUE]
            /\ constructedAfter' = [constructedAfter EXCEPT ![p] = FALSE]
       ELSE UNCHANGED <<apiKey, apiKeyConfigured, keyEntered, constructedAfter>>
    /\ UNCHANGED globalApiKey

\* the configureApiKey command, or the webview's 'configureApiKey' message
ConfigureApiKeyCommand(p) ==
    /\ keyPrompts < MaxPrompts
    /\ \E input \in InputBoxResults : configureApiKey(p, input, "command")
    /\ UNCHANGED <<histVars, batchVars, retryVars, chatVars, ctxVars, procVars, imgVars>>

\* generateResponse begins: without a key the user is asked for one first
GenerateResponseStart(p) ==
    /\ keyPrompts < MaxPrompts
    /\ IF ~isConfigured(p)
       THEN \E input \in InputBoxResults : configureApiKey(p, input, "generateResponse")
       ELSE /\ keyPromptSource' = [keyPromptSource EXCEPT ![p] = "none"]
            /\ UNCHANGED <<globalApiKey, apiKey, apiKeyConfigured, keyEntered, constructedAfter, keyPrompts>>
    /\ UNCHANGED <<histVars, batchVars, retryVars, chatVars, ctxVars, procVars, imgVars>>

\* the extension host restarts: global state survives, context keys do not,
\* and the constructor of each provider reads the key from global state
RestartExtension ==
    /\ \E p \in Providers : apiKey[p] # globalApiKey[p] \/ apiKeyConfigured[p] \/ ~constructedAfter[p]
    /\ apiKey' = [p \in Providers |-> globalApiKey[p]]
    /\ apiKeyConfigured' = [p \in Providers |-> FALSE]
    /\ constructedAfter' = [p \in Providers |-> TRUE]
    /\ UNCHANGED <<globalApiKey, keyEntered, keyPrompts, keyPromptSource>>
    /\ UNCHANGED <<histVars, batchVars, retryVars, chatVars, ctxVars, procVars, imgVars>>

----------------------------------------------------------------------------
(* Specifications *)

HistIdle == chatHistory = <<>> /\ historyCalls = 0 /\ historyLog = <<>>

BatchIdle ==
    /\ contextItems = <<>>
    /\ maxTokensPerBatch = 0
    /\ sortedItems = <<>>
    /\ batches = <<>>
    /\ batchPc = "idle"

RetryIdle ==
    /\ provider = "anthropic"
    /\ reqOriginal = <<>>
    /\ reqItems = <<>>
    /\ reqPc = "idle"
    /\ reqError = NoError
    /\ reqSizes = <<>>
    /\ reqFull = <<>>
    /\ reqDelivered = <<>>

ChatIdle ==
    /\ hPc = [h \in Handlers |-> "none"]
    /\ hBatchesLeft = [h \in Handlers |-> 0]
    /\ hItems = [h \in Handlers |-> 0]
    /\ hChunks = [h \in Handlers |-> 0]
    /\ hPosted = [h \in Handlers |-> <<>>]
    /\ inFlight = {}

CtxIdle ==
    /\ fsExists = Paths
    /\ selectedContextItems = <<>>
    /\ storedContext = <<>>
    /\ pendingWrites = <<>>
    /\ addOps = {}
    /\ opsIssued = 0
    /\ storageWrites = 0
    /\ ctxLog = <<>>

KeyIdle ==
    /\ globalApiKey = [p \in Providers |-> NoKey]
    /\ apiKey = [p \in Providers |-> NoKey]
    /\ apiKeyConfigured = [p \in Providers |-> FALSE]
    /\ keyEntered = [p \in Providers |-> FALSE]
    /\ constructedAfter = [p \in Providers |-> FALSE]
    /\ keyPrompts = 0
    /\ keyPromptSource = [p \in Providers |-> "none"]

ImgIdle ==
    /\ clock = 0
    /\ inMemoryImages = <<>>
    /\ imageUploads = 0
    /\ imageRemovals = 0
    /\ imageEvents = 0

ProcIdle ==
    /\ procPc = "idle"
    /\ procIndex = 0
    /\ procResponse = <<>>
    /\ procLog = <<>>

InitHistory == HistIdle /\ BatchIdle /\ RetryIdle /\ ChatIdle /\ CtxIdle /\ KeyIdle /\ ProcIdle /\ ImgIdle

SpecHistory == InitHistory /\ [][AddToHistory]_vars

InitBatch ==
    /\ HistIdle
    /\ \/ \E n \in 0..MaxLen : contextItems \in ShortInputs(n)
       \/ contextItems \in LongInputs
    /\ maxTokensPerBatch \in Budgets
    /\ sortedItems = <<>>
    /\ batches = <<>>
    /\ batchPc = "start"
    /\ RetryIdle
    /\ ChatIdle
    /\ CtxIdle
    /\ KeyIdle
    /\ ProcIdle
    /\ ImgIdle

NextBatch == SortItems \/ CreateBatches

SpecBatch == InitBatch /\ [][NextBatch]_vars

\* processRequestWithContext is called by processBatchedRequest with one
\* batch: between 1 and MAX_FILES_PER_BATCH context items.
InitRetry ==
    /\ HistIdle
    /\ BatchIdle
    /\ provider \in Providers
    /\ \E n \in 1..MAX_FILES_PER_BATCH :
          /\ reqOriginal = [i \in 1..n |-> i]
          /\ reqItems = [i \in 1..n |-> i]
    /\ reqPc = "call"
    /\ reqError = NoError
    /\ reqSizes = <<>>
    /\ reqFull = <<>>
    /\ reqDelivered = <<>>
    /\ ChatIdle
    /\ CtxIdle
    /\ KeyIdle
    /\ ProcIdle
    /\ ImgIdle

NextRetry == IssueRequest \/ StreamChunk \/ StreamEnd \/ StreamFail \/ AfterWait

SpecRetry == InitRetry /\ [][NextRetry]_vars

\* The API answers every request (a stream ends or fails) and the timer of
\* the 3 second wait fires.
SpecRetryFair == SpecRetry /\ WF_vars(NextRetry)

\* generateResponse has told the user which files it uses and calls
\* processBatchedRequest with them.
InitBatched ==
    /\ HistIdle
    /\ contextItems \in ProcInputs
    /\ maxTokensPerBatch \in 1..MaxBudget
    /\ sortedItems = <<>>
    /\ batches = <<>>
    /\ batchPc = "start"
    /\ provider \in Providers
    /\ reqOriginal = <<>>
    /\ reqItems = <<>>
    /\ reqPc = "idle"
    /\ reqError = NoError
    /\ reqSizes = <<>>
    /\ reqFull = <<>>
    /\ reqDelivered = << [kind |-> "analyzing notice", batch |-> 0, attempt |-> 0, seq |-> 0],
                         [kind |-> "using context notice", batch |-> 0, attempt |-> 0, seq |-> 0],
                         [kind |-> "generating notice", batch |-> 0, attempt |-> 0, seq |-> 0] >>
    /\ ChatIdle
    /\ CtxIdle
    /\ KeyIdle
    /\ procPc = "start"
    /\ procIndex = 0
    /\ procResponse = <<>>
    /\ procLog = <<>>
    /\ ImgIdle

NextBatched ==
    \/ StartBatched
    \/ IssueRequest
    \/ StreamChunk
    \/ StreamEnd
    \/ StreamFail
    \/ AfterWait
    \/ BatchReturned
    \/ BatchThrown

SpecBatched == InitBatched /\ [][NextBatched]_vars

InitChat == HistIdle /\ BatchIdle /\ RetryIdle /\ ChatIdle /\ CtxIdle /\ KeyIdle /\ ProcIdle /\ ImgIdle

NextChat ==
    \E h \in Handlers :
        \/ ReceiveMessage(h)
        \/ AnalyzeDone(h)
        \/ AnalyzeFail(h)
        \/ HandlerChunk(h)
        \/ HandlerStreamEnd(h)
        \/ HandlerStreamFail(h)
        \/ HandlerAfterWait(h)

SpecChat == InitChat /\ [][NextChat]_vars

\* One user message from the 'sendMessage' event to the end of
\* _handleUserMessage.  The handler of another message reads and writes only
\* its own entries of hPc, hBatchesLeft, hItems, hChunks and hPosted, so it
\* does not change what this one posts.
NextMessage ==
    \/ ReceiveMessage(1)
    \/ AnalyzeDone(1)
    \/ AnalyzeFail(1)
    \/ HandlerChunk(1)
    \/ HandlerStreamEnd(1)
    \/ HandlerStreamFail(1)
    \/ HandlerAfterWait(1)

\* What has to happen once the handler runs: the API answers the
\* file-selection request and every generation request (the stream ends or
\* fails), and the timer of the 3 second wait fires.
HandlerProgress(h) ==
    \/ AnalyzeDone(h)
    \/ AnalyzeFail(h)
    \/ HandlerStreamEnd(h)
    \/ HandlerStreamFail(h)
    \/ HandlerAfterWait(h)

SpecMessage == InitChat /\ [][NextMessage]_vars /\ WF_vars(HandlerProgress(1))

\* The ContextManager constructor: the list saved by an earlier session is
\* loaded and the paths that no longer exist are left out.
InitContext ==
    /\ HistIdle
    /\ BatchIdle
    /\ RetryIdle
    /\ ChatIdle
    /\ KeyIdle
    /\ ProcIdle
    /\ ImgIdle
    /\ fsExists \in SUBSET Paths
    /\ storedContext \in SavedLists
    /\ selectedContextItems = filter(storedContext, fsExists)
    /\ pendingWrites = <<>>
    /\ addOps = {}
    /\ opsIssued = 0
    /\ storageWrites = 0
    /\ ctxLog = <<>>

NextContext ==
    \/ \E raw \in RawPaths : AddToSelectedContext(raw)
    \/ \E a \in addOps : ResumeAfterMetadata(a)
    \/ \E itemPath \in RawPaths : RemoveFromSelectedContext(itemPath)
    \/ ClearSelectedContext
    \/ SettleWrite

SpecContext == InitContext /\ [][NextContext]_vars

InitImage ==
    HistIdle /\ BatchIdle /\ RetryIdle /\ ChatIdle /\ CtxIdle /\ KeyIdle /\ ProcIdle /\ ImgIdle

NextImage ==
    \/ ClockTick
    \/ \E dataUrl \in DataUrls : HandleImageUploadData(dataUrl)
    \/ \E ms \in 0..MaxClock : RemoveImageFromContext(imageId(ms))

SpecImage == InitImage /\ [][NextImage]_vars

InitKey == HistIdle /\ BatchIdle /\ RetryIdle /\ ChatIdle /\ CtxIdle /\ KeyIdle /\ ProcIdle /\ ImgIdle

NextKey ==
    \/ \E p \in Providers : ConfigureApiKeyCommand(p)
    \/ \E p \in Providers : GenerateResponseStart(p)
    \/ RestartExtension

SpecKey == InitKey /\ [][NextKey]_vars

----------------------------------------------------------------------------
(* Claims *)

\* C1: after any sequence of addToHistory calls the chat history never has
\* more than 20 entries.
C1_HistoryCapped == Len(chatHistory) <= HISTORY_LIMIT

\* C1 witness: more than 20 calls were made and the history is full.
C1_Witness == historyCalls > HISTORY_LIMIT /\ Len(chatHistory) = HISTORY_LIMIT

\* C2 (as claimed): every batch returned by createContextBatches has a token
\* sum of at most maxTokensPerBatch.
C2_BatchesFitBudget ==
    batchPc = "batched" =>
        \A b \in DOMAIN batches : SumTokens(batches[b]) <= maxTokensPerBatch

\* C3: every returned batch holds at least one and at most
\* MAX_FILES_PER_BATCH context items.
C3_BatchSize ==
    batchPc = "batched" =>
        \A b \in DOMAIN batches :
            Len(batches[b]) >= 1 /\ Len(batches[b]) <= MAX_FILES_PER_BATCH

\* C3 witness: a batch was closed because it held MAX_FILES_PER_BATCH items.
C3_Witness ==
    /\ batchPc = "batched"
    /\ Len(batches) >= 2
    /\ Len(batches[1]) = MAX_FILES_PER_BATCH

\* C4: the batches, concatenated in order, are exactly the list handed to
\* createContextBatches; an empty list gives no batches.
C4_Partition ==
    batchPc = "batched" =>
        /\ Flatten(batches) = sortedItems
        /\ (sortedItems = <<>> => batches = <<>>)

\* C4 witness: a non-trivial partition into at least three batches.
C4_Witness ==
    /\ batchPc = "batched"
    /\ Len(batches) >= 3
    /\ \E b \in DOMAIN batches : Len(batches[b]) >= 2

\* C5: a new batch is started only when needed: of two consecutive batches
\* the first is full (10 items) or cannot take the first item of the second
\* within the token budget.
C5_Greedy ==
    batchPc = "batched" =>
        \A b \in 1..(Len(batches) - 1) :
            \/ Len(batches[b]) >= MAX_FILES_PER_BATCH
            \/ SumTokens(batches[b]) + countContextItemTokens(batches[b + 1][1])
                  > maxTokensPerBatch

\* C5 witness: a batch closed by the token budget although it had room for
\* more items, holding exactly the budget.
C5_Witness ==
    /\ batchPc = "batched"
    /\ Len(batches) >= 2
    /\ Len(batches[1]) >= 2
    /\ Len(batches[1]) < MAX_FILES_PER_BATCH
    /\ SumTokens(batches[1]) = maxTokensPerBatch

RECURSIVE CeilLog2(_)
CeilLog2(n) == IF n <= 1 THEN 0 ELSE 1 + CeilLog2((n + 1) \div 2)

C8_NoParallelRequests == Cardinality(inFlight) <= 1

AllSettled == addOps = {} /\ pendingWrites = <<>>

\* C9 (as claimed): once every add/remove/clear issued so far has completed
\* and all storage updates have settled, the stored list equals the
\* in-memory list.
C9_StoredEqualsMemory ==
    (opsIssued >= 1 /\ AllSettled) => storedContext = selectedContextItems

\* C9 (amended): once everything has settled the stored list equals the
\* in-memory list provided a storage update was made since construction;
\* until the first update the stored list is the one the previous session
\* saved and the in-memory list is that list without the missing paths.
C9_StoredEqualsMemoryAfterWrite ==
    AllSettled =>
        /\ storageWrites >= 1 => storedContext = selectedContextItems
        /\ storageWrites = 0 => selectedContextItems = filter(storedContext, fsExists)

\* C9 witness: adds (one of a directory), a remove or clear, all settled,
\* with a non-empty list in memory and in storage.
C9_Witness ==
    /\ AllSettled
    /\ opsIssued >= 3
    /\ storageWrites >= 3
    /\ includes(selectedContextItems, "dir")
    /\ Len(selectedContextItems) >= 2
    /\ storedContext = selectedContextItems

\* C10 (as claimed): a provider constructed after a key was entered through
\* configureApiKey finds the key in global state, is configured, and its
\* generateResponse does not ask for the key again.
C10_KeySurvivesRestart ==
    \A p \in Providers :
        (keyEntered[p] /\ constructedAfter[p]) =>
            /\ globalApiKey[p] # NoKey
            /\ isConfigured(p)
            /\ keyPromptSource[p] # "generateResponse"

Min(a, b) == IF a < b THEN a ELSE b

LastN(s, n) == SubSeq(s, Len(s) - n + 1, Len(s))

\* C11: after n addToHistory calls getHistory returns the most recent
\* min(n, 20) entries passed in, in call order (the oldest one is evicted
\* when the 21st arrives).
C11_FifoWindow ==
    /\ historyCalls = Len(historyLog)
    /\ getHistory(chatHistory) = LastN(historyLog, Min(historyCalls, HISTORY_LIMIT))

\* C11 witness: a 21st entry arrived, the first entry ever added is gone
\* and the second, which differs from it, is now the oldest.
C11_Witness ==
    /\ historyCalls = HISTORY_LIMIT + 1
    /\ historyLog[1] # historyLog[2]
    /\ getHistory(chatHistory)[1] = historyLog[2]
    /\ getHistory(chatHistory)[HISTORY_LIMIT] = historyLog[HISTORY_LIMIT + 1]

RECURSIVE CountEntries(_, _, _)
CountEntries(history, role, content) ==
    IF history = <<>> THEN 0
    ELSE (IF Head(history) = [role |-> role, content |-> content] THEN 1 ELSE 0)
         + CountEntries(Tail(history), role, content)

\* C12: a completed chat exchange has appended exactly one 'user' entry
\* holding its prompt and exactly one 'assistant' entry holding its
\* response, with or without context items.
C12_OneUserOneAssistant ==
    \A h \in Handlers :
        hPc[h] = "done" =>
            /\ CountEntries(getHistory(chatHistory), "user", <<"prompt", h>>) = 1
            /\ CountEntries(getHistory(chatHistory), "assistant", <<"response", h>>) = 1

\* C13: processRequestWithContext terminates, also when every attempt fails
\* with a rate-limit error: each retry carries strictly fewer items than the
\* attempt before it, with a single item left the error goes to the caller
\* without another request, and the call ends by returning or throwing.
C13_RetryTerminates ==
    /\ [](\A k \in 2..Len(reqSizes) : reqSizes[k] < reqSizes[k - 1])
    /\ [][(reqPc = "wait" /\ Len(reqItems) = 1)
             => (reqPc' = "thrown" /\ reqSizes' = reqSizes /\ reqError' = reqError)]_vars
    /\ <>(reqPc \in {"returned", "thrown"})

\* C13 witness: every attempt of a request with the largest batch failed
\* with a rate-limit error, down to the single item 10, 5, 3, 2, 1.
C13_Witness ==
    /\ reqPc = "thrown"
    /\ isRateLimitError(provider, reqError)
    /\ Len(reqOriginal) = MAX_FILES_PER_BATCH
    /\ reqSizes = <<10, 5, 3, 2, 1>>

\* C14: the context of a retry is the first ceil(n/2) of the failed
\* attempt's n items in their order, so the first item of the original
\* request is part of every retry.
C14_RetryKeepsPrefix ==
    /\ [][reqItems' # reqItems
             => reqItems' = SubSeq(reqItems, 1, (Len(reqItems) + 1) \div 2)]_vars
    /\ [](/\ reqItems = SubSeq(reqOriginal, 1, Len(reqItems))
          /\ reqItems[1] = reqOriginal[1])

\* C14 witness: a retry with three of five items is in flight.
C14_Witness ==
    /\ reqPc = "stream"
    /\ Len(reqOriginal) = 5
    /\ reqItems = <<1, 2, 3>>
    /\ reqSizes = <<5, 3>>

\* C15: an error that is not a rate-limit error goes to the caller at once,
\* and a rate-limit error on an attempt with at most one item goes to the
\* caller after the wait; in both cases no further request is issued.
C15_PropagatedWithoutRetry ==
    /\ [][(reqPc = "stream" /\ reqPc' \notin {"stream", "returned"}
            /\ ~isRateLimitError(provider, reqError'))
             => (reqPc' = "thrown" /\ reqSizes' = reqSizes /\ reqItems' = reqItems)]_vars
    /\ [][(reqPc = "wait" /\ Len(reqItems) <= 1)
             => (reqPc' = "thrown" /\ reqSizes' = reqSizes /\ reqItems' = reqItems)]_vars
    /\ [][reqPc = "thrown" => (reqPc' = "thrown" /\ reqSizes' = reqSizes)]_vars

\* C15 witness: the first attempt, with several items, failed with an error
\* that is not a rate-limit error and the error reached the caller.
C15_Witness ==
    /\ reqPc = "thrown"
    /\ ~isRateLimitError(provider, reqError)
    /\ reqError.isError
    /\ Len(reqItems) > 1
    /\ Len(reqSizes) = 1

IsCall(e) == e.event = "call"

IsRequest(e) == e.event = "request"

IsConsumed(e) == e.event = "consumed"

IsChunk(t) == t.kind = "chunk"

RECURSIVE Responses(_)
Responses(entries) ==
    IF entries = <<>> THEN <<>> ELSE Head(entries).response \o Responses(Tail(entries))

C18_NoDuplicatePaths ==
    \A i, j \in DOMAIN selectedContextItems :
        i # j => selectedContextItems[i] # selectedContextItems[j]

\* C19: for an existing path p that is not selected, addToSelectedContext(p)
\* run to completion and followed by removeFromSelectedContext(p) leaves
\* the list as it was before the add.
C19_AddRemoveRoundTrip ==
    \A k \in 1..(Len(ctxLog) - 1) :
        (/\ ctxLog[k].kind = "add"
         /\ ctxLog[k + 1].kind = "remove"
         /\ ctxLog[k + 1].raw = ctxLog[k].raw
         /\ existsSync(ctxLog[k].raw)
         /\ ~includes(ctxLog[k].before, ctxLog[k].raw)
         /\ ctxLog[k].quiet
         /\ ctxLog[k + 1].quiet)
        => ctxLog[k + 1].after = ctxLog[k].before

\* C20: addToSelectedContext with a path that does not exist changes
\* neither the list in memory nor the stored list, and starts no write.
C20_MissingPathRejected ==
    [][(/\ Len(ctxLog') = Len(ctxLog) + 1
        /\ ctxLog'[Len(ctxLog')].kind = "add"
        /\ normalize(ctxLog'[Len(ctxLog')].raw) \notin fsExists)
       => (/\ selectedContextItems' = selectedContextItems
           /\ storedContext' = storedContext
           /\ pendingWrites' = pendingWrites
           /\ addOps' = addOps
           /\ storageWrites' = storageWrites)]_vars

\* C20 witness: a path that does not exist was passed to
\* addToSelectedContext while the list, stored as it is, held another path.
C20_Witness ==
    /\ ctxLog # <<>>
    /\ ctxLog[Len(ctxLog)].kind = "add"
    /\ normalize(ctxLog[Len(ctxLog)].raw) \notin fsExists
    /\ selectedContextItems # <<>>
    /\ storedContext = selectedContextItems
    /\ AllSettled

RECURSIVE LastOf(_, _)
\* the last of the given kinds of message in a log of posts, "none" if there is none
LastOf(posted, kinds) ==
    IF posted = <<>> THEN "none"
    ELSE IF posted[Len(posted)] \in kinds THEN posted[Len(posted)]
    ELSE LastOf(SubSeq(posted, 1, Len(posted) - 1), kinds)

TypingShown(h) == LastOf(hPosted[h], {"showTyping", "hideTyping"}) = "showTyping"

\* C21: a typing indicator shown for a user message is hidden again: after
\* showTyping the handler posts hideTyping, and it has done so by the time
\* generateResponse has returned or thrown and the handler ends.
C21_TypingHidden ==
    /\ TypingShown(1) ~> ~TypingShown(1)
    /\ [](hPc[1] \in {"done", "failed"} => ~TypingShown(1))

\* C21 witness: the indicator was shown, generateResponse threw on a
\* request with one context item, and the indicator was hidden.
C21_Witness ==
    /\ hPc[1] = "failed"
    /\ \E i, j \in DOMAIN hPosted[1] :
          /\ i < j
          /\ hPosted[1][i] = "showTyping"
          /\ hPosted[1][j] = "hideTyping"
    /\ hItems[1] = 1
    /\ ~TypingShown(1)

AIMessageOpen(h) ==
    LastOf(hPosted[h], {"startAIMessage", "completeAIMessage"}) = "startAIMessage"

\* C22: an AI message that was started is completed, whether
\* generateResponse returns or throws: after startAIMessage the handler
\* posts completeAIMessage, and not before the response has been received.
C22_StartedMessageCompleted ==
    /\ AIMessageOpen(1) ~> ~AIMessageOpen(1)
    /\ [](hPc[1] \in {"analyze", "stream", "wait"} => AIMessageOpen(1))

\* C23: while no image has been removed, the image map holds one entry for
\* every upload stored so far: no upload replaces the data of an earlier
\* one, also when two uploads are handled in the same millisecond.
C23_OneEntryPerUpload ==
    imageRemovals = 0 => Cardinality(DOMAIN inMemoryImages) = imageUploads

====
